---- MODULE Spec2Model ----
(***************************************************************************)
(* ultra_cli.argument_parser: Option, ArgumentParser.                      *)
(* pymenus.menu: Menu and the execute loop of _BaseMenu.                   *)
(*                                                                         *)
(* Strings are sequences of one-character strings, so that indexing        *)
(* (name[0]), startswith("-"), int() and list() act on characters.         *)
(* Python values are records with a `kind` tag.  Dicts are functions from  *)
(* names together with the key order `order` (insertion order).            *)
(***************************************************************************)
EXTENDS Integers, Sequences, FiniteSets, TLC

\* ------------------------------------------------------------------ bounds
\* longest argv passed to parse_arguments
MaxArgs == 3
\* largest Option.maximum of a descriptor
MaxMaximum == 2

\* ------------------------------------------------------------ Python values
PyNone == [kind |-> "None"]
PyEllipsis == [kind |-> "Ellipsis"]
PyBool(b) == [kind |-> "bool", val |-> b]
PyInt(n) == [kind |-> "int", val |-> n]
PyStr(s) == [kind |-> "str", val |-> s]
PyList(l) == [kind |-> "list", val |-> l]

\* the names declared by the schemas of the model, in declaration order
OptionNames == << <<"v", "a">>, <<"v", "b">> >>

\* value tokens of the model: "7" (an int literal) and "ab" (not one)
ValueTokens == { <<"7">>, <<"a", "b">> }

Digits == {"0", "1", "2", "3", "4", "5", "6", "7", "8", "9"}

DigitVal(c) == CASE c = "0" -> 0 [] c = "1" -> 1 [] c = "2" -> 2 [] c = "3" -> 3
                 [] c = "4" -> 4 [] c = "5" -> 5 [] c = "6" -> 6 [] c = "7" -> 7
                 [] c = "8" -> 8 [] c = "9" -> 9

RECURSIVE DecimalVal(_)
DecimalVal(s) == IF s = <<>> THEN 0
                 ELSE 10 * DecimalVal(SubSeq(s, 1, Len(s) - 1)) + DigitVal(s[Len(s)])

\* str.startswith("-")
StartsWithDash(s) == Len(s) > 0 /\ s[1] = "-"

\* --------------------------------------------------------------- exceptions
NoName == <<>>
NoError == [exc |-> "none", text |-> "", name |-> NoName, detail |-> PyNone]

\* ValidationError(f"...") : `text` is the message template, `name` the option
\* name the f-string interpolates (NoName when it interpolates none), `detail`
\* the other interpolated value
ValidationError(text, name, detail) ==
    [exc |-> "ValidationError", text |-> text, name |-> name, detail |-> detail]

\* an exception raised by a converter: str(e) is `detail`
ConverterError(exc, msg) == [exc |-> exc, text |-> "converter", name |-> NoName, detail |-> msg]

Ok(v) == [ok |-> TRUE, value |-> v, error |-> NoError]
Raise(e) == [ok |-> FALSE, value |-> PyNone, error |-> e]

\* --------------------------------------------------------------- converters
\* int(x) for a str x: the digits' value, or ValueError
IntOf(x) ==
    IF x.kind = "str"
    THEN IF x.val # <<>> /\ \A n \in 1..Len(x.val) : x.val[n] \in Digits
         THEN Ok(PyInt(DecimalVal(x.val)))
         ELSE Raise(ConverterError("ValueError", PyStr(x.val)))
    ELSE IF x.kind = "bool" THEN Ok(PyInt(IF x.val THEN 1 ELSE 0))
    ELSE Raise(ConverterError("TypeError", x))

\* str(x) for a str x
StrOf(x) == IF x.kind = "str" THEN Ok(x) ELSE Ok(PyStr(<<x.kind>>))

\* list(x): the characters of a str, the elements of a list
ListOf(x) ==
    IF x.kind = "str" THEN Ok(PyList([n \in 1..Len(x.val) |-> PyStr(<<x.val[n]>>)]))
    ELSE IF x.kind = "list" THEN Ok(x)
    ELSE Raise(ConverterError("TypeError", x))

\* GenericAlias(Positional, int)(x) constructs Positional(x): the class (lines
\* 10-12) defines no __init__, so object's rejects the argument
PositionalOf(x) ==
    Raise(ConverterError("TypeError", PyStr(<<"Positional() takes no arguments">>)))

\* validator(value) for the validators that are plain callables
CallValidator(validator, value) ==
    CASE validator = "int" -> IntOf(value)
      [] validator = "str" -> StrOf(value)
      [] validator = "list" -> ListOf(value)
      [] validator = "Positional[int]" -> PositionalOf(value)
      [] OTHER -> Raise(ConverterError("TypeError", value))

\* ------------------------------------------------------------------- schema
\* annotation types: int, str, bool, list, int | None and Positional[int]
Types == {"int", "str", "bool", "list", "int|None", "Positional[int]"}

\* get_origin(arg_type) == Positional
IsPositionalType(arg_type) == arg_type = "Positional[int]"

\* a check_none_default that finds None in no annotation
check_none_default_never(arg_type) == FALSE

\* lines 19-23: a union type with None among its members
check_none_default(arg_type) == arg_type = "int|None"

\* isinstance(validator, tuple(_COMPLEX_HANDLERS.keys()))
IsComplex(validator) == validator = "int|None"

\* the class attribute values a declaration of each type may carry
AttrValues(type) ==
    CASE type = "int" -> {PyInt(0)}
      [] type = "str" -> {PyStr(<<"d">>)}
      [] type = "bool" -> {PyBool(FALSE), PyBool(TRUE)}
      [] type = "list" -> {PyList(<<>>)}
      [] type = "Positional[int]" -> {PyInt(0)}
      [] OTHER -> {}

\* Option.__init__
OptionInit(name, validator, abrev, positional, default, maximum) ==
    [name |-> name, validator |-> validator, abrev |-> abrev,
     positional |-> positional, default |-> default, maximum |-> maximum,
     required |-> (default = PyEllipsis)]

\* one annotation of the parser class: its name, its type, whether the class
\* has an attribute of that name and the attribute's value.  __init__ always
\* builds the descriptor with Option's default maximum = 1 (an Option instance
\* as class attribute ends __init__ with an AttributeError at line 108, so no
\* parser comes of it); `maximum` is the value the descriptor in self.args
\* carries when parse_arguments runs, 1 unless the caller has set it.
Declarations(name) ==
    { [name |-> name, type |-> t, hasattr |-> h, attr |-> a, maximum |-> m] :
        t \in Types, h \in {FALSE}, a \in {PyNone}, m \in 1..MaxMaximum }
    \cup
    UNION { { [name |-> name, type |-> t, hasattr |-> TRUE, attr |-> a, maximum |-> m] :
                a \in AttrValues(t), m \in 1..MaxMaximum } : t \in Types }

\* the loop body taking None as the default of every declaration
MakeOptionDefaultNone(decl, config_abrev) ==
    [ OptionInit(decl.name, decl.type, config_abrev, IsPositionalType(decl.type), PyNone, 1)
        EXCEPT !.maximum = decl.maximum ]

\* the body of the loop of ArgumentParser.__init__ for one annotation
MakeOption(decl, config_abrev) ==
    LET default == IF decl.hasattr THEN decl.attr
                   ELSE IF check_none_default(decl.type) THEN PyNone ELSE PyEllipsis
    IN  [ OptionInit(decl.name, decl.type, config_abrev, IsPositionalType(decl.type),
                     default, 1)
            EXCEPT !.maximum = decl.maximum ]

\* the declarations used in schemas of several options: int and bool, with
\* Option.maximum left at 1 (this keeps the state space within reach)
PlainDeclarations(name) ==
    { d \in Declarations(name) : d.type \in {"int", "bool"} /\ d.maximum = 1 }

\* the schemas of the model: every declaration alone under the first name of
\* OptionNames, and one plain declaration per name of OptionNames
RECURSIVE PlainSchemas(_)
PlainSchemas(n) ==
    IF n = 0 THEN { <<>> }
    ELSE { Append(s, d) : s \in PlainSchemas(n - 1), d \in PlainDeclarations(OptionNames[n]) }

Schemas == { <<d>> : d \in Declarations(OptionNames[1]) } \cup PlainSchemas(Len(OptionNames))

\* ------------------------------------------------------------ name resolver
\* ArgumentParser._get_acceptable_arg_names, options taken in `names` order.
\* `abrv in acceptables` tests the KEYS of the dict (option names).
\* the while loop of lines 150-152; name[i] past the end is an IndexError
IndexError == <<"IndexError">>

RECURSIVE Lengthen(_, _, _, _)
Lengthen(abrv, name, n, keys) ==
    IF abrv \in keys
    THEN IF n + 1 < Len(name)
         THEN Lengthen(Append(abrv, name[n + 2]), name, n + 1, keys)
         ELSE IndexError
    ELSE abrv

RECURSIVE AcceptablesUpTo(_, _, _)
AcceptablesUpTo(names, opts, n) ==
    IF n = 0 THEN [x \in {} |-> <<>>]
    ELSE LET acc == AcceptablesUpTo(names, opts, n - 1)
             arg == opts[names[n]]
             long == <<"-", "-">> \o arg.name
             abrv == Lengthen(<<"-", arg.name[1]>>, arg.name, 0, DOMAIN acc \cup {names[n]})
         IN  [x \in DOMAIN acc \cup {names[n]} |->
                 IF x = names[n]
                 THEN IF arg.abrev THEN <<long, abrv>> ELSE <<long>>
                 ELSE acc[x]]

_get_acceptable_arg_names(names, opts) == AcceptablesUpTo(names, opts, Len(names))

InSeq(x, s) == \E n \in 1..Len(s) : s[n] = x

\* ArgumentParser._check_acceptable: the first option, in key order, one of
\* whose spellings is `name`; NoName stands for None
FirstAcceptable(name, names, acceptables) ==
    LET hits == { n \in 1..Len(names) : InSeq(name, acceptables[names[n]]) }
    IN  IF hits = {} THEN NoName
        ELSE names[CHOOSE n \in hits : \A m \in hits : n <= m]

\* ------------------------------------------------------------- Option.parse
\* [validator(value) for value in values]: the first failure aborts
RECURSIVE ConvertAll(_, _, _)
ConvertAll(validator, values, n) ==
    IF n = 0 THEN Ok(PyList(<<>>))
    ELSE LET before == ConvertAll(validator, values, n - 1)
             here == CallValidator(validator, values[n])
         IN  IF ~before.ok THEN before
             ELSE IF ~here.ok THEN here
             ELSE Ok(PyList(Append(before.value.val, here.value)))

\* parse_union(name, validator, values) for int | None with at least one value
\* group: the coercion rule of the inner shape, a scalar (one token per group,
\* converted; a failure names the option and carries the converter's message)
parse_union(name, validator, values) ==
    IF \E n \in 1..Len(values) : values[n].kind = "list"
    THEN Raise(ValidationError("must have single argument", name, PyNone))
    ELSE LET r == IF Len(values) = 1 THEN CallValidator("int", values[1])
                  ELSE ConvertAll("int", values, Len(values))
         IN  IF r.ok THEN r
             ELSE Raise(ValidationError("conversion failed", name, r.error.detail))

\* the try block of Option.parse: any Exception becomes ValidationError(str(e))
Convert(validator, values) ==
    LET r == IF Len(values) = 1 THEN CallValidator(validator, values[1])
             ELSE ConvertAll(validator, values, Len(values))
    IN  IF r.ok THEN r
        ELSE Raise(ValidationError("str(e)", NoName, r.error.detail))

\* the test of line 75 with the two returns exchanged
DefaultIsNeitherEllipsisNorFalse(default) ==
    ~(default = PyEllipsis \/ default = PyBool(FALSE) \/ default = PyInt(0))

\* self.default in (Ellipsis, False): == comparison, so 0 counts as False
DefaultIsEllipsisOrFalse(default) ==
    default = PyEllipsis \/ default = PyBool(FALSE) \/ default = PyInt(0)

\* Option.parse without the test of lines 69-72
OptionParseNoArityTest(opt, values) ==
    IF Len(values) > opt.maximum
    THEN Raise(ValidationError("You can use option only times", opt.name, PyInt(opt.maximum)))
    ELSE IF IsComplex(opt.validator)
    THEN parse_union(opt.name, opt.validator, values)
    ELSE IF opt.validator = "bool"
    THEN Ok(PyBool(DefaultIsEllipsisOrFalse(opt.default)))
    ELSE Convert(opt.validator, values)

\* Option.parse with lines 74-77 returning True whatever the default
OptionParseBoolAlwaysTrue(opt, values) ==
    IF Len(values) > opt.maximum
    THEN Raise(ValidationError("You can use option only times", opt.name, PyInt(opt.maximum)))
    ELSE IF IsComplex(opt.validator)
    THEN parse_union(opt.name, opt.validator, values)
    ELSE IF opt.validator # "list" /\ \E n \in 1..Len(values) : values[n].kind = "list"
    THEN Raise(ValidationError("must have single argument", opt.name, PyNone))
    ELSE IF opt.validator = "bool"
    THEN Ok(PyBool(TRUE))
    ELSE Convert(opt.validator, values)

\* Option.parse(*values)
OptionParse(opt, values) ==
    IF Len(values) > opt.maximum
    THEN Raise(ValidationError("You can use option only times", opt.name, PyInt(opt.maximum)))
    ELSE IF IsComplex(opt.validator)
    THEN parse_union(opt.name, opt.validator, values)
    ELSE IF opt.validator # "list" /\ \E n \in 1..Len(values) : values[n].kind = "list"
    THEN Raise(ValidationError("must have single argument", opt.name, PyNone))
    ELSE IF opt.validator = "bool"
    THEN Ok(PyBool(DefaultIsEllipsisOrFalse(opt.default)))
    ELSE Convert(opt.validator, values)

\* ------------------------------------------------------------------- state
VARIABLES
    annotations,    \* the declarations of the parser class, in declaration order
    order,          \* the keys of self.args, in insertion (declaration) order
    args,           \* self.args : name -> Option
    _acceptables,   \* self._acceptables : name -> spellings
    allow_unknown,  \* self._config.allow_unknown
    argv,           \* the `args` parameter of the running parse_arguments call
    i,              \* scan index (0-based, as in the code)
    arg_counter,    \* name -> remaining occurrences
    to_parse_args,  \* name -> collected value groups
    results,        \* name -> value, for the options handled so far
    error,          \* the exception that left parse_arguments, or NoError
    pc,             \* "idle", "scan", "coerce", "done"
    earlier,        \* history: how the previous call on this parser ended
    menus,          \* the Menu objects: id -> [sub_menus, options]
    stack,          \* the running execute() calls, the innermost last
    status,         \* "idle", "running", "returned", "exited", or the exception raised
    called,         \* history: the option functions called, with their kwargs
    last            \* history: the menu shown last and what the user entered

menu_vars == <<menus, stack, status, called, last>>

vars == <<annotations, order, args, _acceptables, allow_unknown, argv, i, arg_counter,
          to_parse_args, results, error, pc, earlier, menu_vars>>

schema_vars == <<annotations, order, args, _acceptables, allow_unknown>>

\* no menu is being run
NoMenu ==
    /\ menus = <<>>
    /\ stack = <<>>
    /\ status = "idle"
    /\ called = <<>>
    /\ last = <<>>

EmptyDict == [x \in {} |-> PyNone]

Names == { order[n] : n \in 1..Len(order) }

_check_acceptable(name) == FirstAcceptable(name, order, _acceptables)

\* every spelling an option of the schema can have, and the value tokens
Tokens ==
    { <<"-", "-">> \o order[n] : n \in 1..Len(order) }
    \cup { <<"-", order[n][1]>> : n \in 1..Len(order) }
    \cup ValueTokens

Argvs == UNION { [1..n -> Tokens] : n \in 0..MaxArgs }

\* the argv of the calls in runs of several calls on one parser
ShortArgvs == UNION { [1..n -> Tokens] : n \in 0..(MaxArgs - 1) }

\* ArgumentParser.__init__ on a class with the annotations `schema`
Construct ==
    \E schema \in Schemas, config_abrev \in BOOLEAN, config_allow_unknown \in BOOLEAN :
        LET names == [n \in 1..Len(schema) |-> schema[n].name]
            opts == [x \in { schema[n].name : n \in 1..Len(schema) } |->
                        MakeOption(CHOOSE d \in { schema[n] : n \in 1..Len(schema) } : d.name = x,
                                   config_abrev)]
        IN  /\ annotations = schema
            /\ order = names
            /\ args = opts
            /\ _acceptables = _get_acceptable_arg_names(names, opts)
            /\ allow_unknown = config_allow_unknown
            /\ argv = <<>>
            /\ i = 0
            /\ arg_counter = EmptyDict
            /\ to_parse_args = EmptyDict
            /\ results = EmptyDict
            /\ error = NoError
            /\ pc = "idle"

\* a parser just constructed, nothing called on it yet
Init == Construct /\ earlier = "none" /\ NoMenu

\* the position after the while loop's test at index n
AfterScan(n, a) == IF n < Len(a) THEN "scan" ELSE "coerce"

\* the run taken to end where the token itself is (j = i)
RunEndAtToken(a, n) == n - 1

\* the first j >= n with j = len(args) or args[j].startswith("-")
RECURSIVE RunEnd(_, _)
RunEnd(a, n) == IF n < Len(a) /\ ~StartsWithDash(a[n + 1]) THEN RunEnd(a, n + 1) ELSE n

\* parse_arguments(args): lines 169-172 and the first test of the while loop
Call(a) ==
    /\ pc = "idle"
    /\ argv' = a
    /\ i' = 0
    /\ results' = EmptyDict
    /\ arg_counter' = [x \in Names |-> args[x].maximum]
    /\ to_parse_args' = [x \in Names |-> <<>>]
    /\ error' = NoError
    /\ pc' = AfterScan(0, a)
    /\ UNCHANGED <<schema_vars, earlier, menu_vars>>

\* every empty run taken as a presence marker
EmptyRunNeverAnError(name) == FALSE

\* lines 185-189: an empty value run is an error unless the validator is bool
EmptyRunIsError(name) == args[name].validator # "bool"

\* the test of line 177 letting the counter reach zero and pass once more
LimitReachedBelowZero(name) == arg_counter[name] < 0

\* line 177: if arg_counter[name] <= 0
LimitReached(name) == arg_counter[name] <= 0

\* the scan counting the occurrences down on the descriptor, not only on the
\* counter of the call
ScanOptionSpendingMaximum ==
    /\ pc = "scan"
    /\ LET arg == argv[i + 1]
           name == _check_acceptable(arg)
           j == RunEnd(argv, i + 1)
       IN  /\ name # NoName
           /\ IF LimitReached(name)
              THEN /\ error' = ValidationError("You can use option only times", name,
                                                PyInt(args[name].maximum))
                   /\ pc' = "done"
                   /\ UNCHANGED <<i, arg_counter, to_parse_args, args>>
              ELSE /\ arg_counter' = [arg_counter EXCEPT ![name] = @ - 1]
                   /\ args' = [args EXCEPT ![name].maximum = @ - 1]
                   /\ IF i + 1 = j /\ EmptyRunIsError(name)
                      THEN /\ error' = ValidationError("option needs an argument", name, PyNone)
                           /\ pc' = "done"
                           /\ UNCHANGED <<i, to_parse_args>>
                      ELSE LET to_send ==
                                   IF i + 1 = j THEN PyBool(TRUE)
                                   ELSE IF i + 2 = j THEN PyStr(argv[i + 2])
                                   ELSE PyList([n \in 1..(j - i) |-> PyStr(argv[i + n])])
                           IN  /\ to_parse_args' =
                                      [to_parse_args EXCEPT ![name] = Append(@, to_send)]
                               /\ i' = j
                               /\ pc' = AfterScan(j, argv)
                               /\ UNCHANGED error
    /\ UNCHANGED <<annotations, order, _acceptables, allow_unknown, argv, results, earlier,
                   menu_vars>>

\* one iteration of the while loop at a token that resolves to an option
ScanOption ==
    /\ pc = "scan"
    /\ LET arg == argv[i + 1]
           name == _check_acceptable(arg)
           j == RunEnd(argv, i + 1)
       IN  /\ name # NoName
           /\ IF LimitReached(name)
              THEN /\ error' = ValidationError("You can use option only times", name,
                                                PyInt(args[name].maximum))
                   /\ pc' = "done"
                   /\ UNCHANGED <<i, arg_counter, to_parse_args>>
              ELSE /\ arg_counter' = [arg_counter EXCEPT ![name] = @ - 1]
                   /\ IF i + 1 = j /\ EmptyRunIsError(name)
                      THEN /\ error' = ValidationError("option needs an argument", name, PyNone)
                           /\ pc' = "done"
                           /\ UNCHANGED <<i, to_parse_args>>
                      ELSE LET to_send ==
                                   IF i + 1 = j THEN PyBool(TRUE)
                                   ELSE IF i + 2 = j THEN PyStr(argv[i + 2])
                                   ELSE PyList([n \in 1..(j - i) |-> PyStr(argv[i + n])])
                           IN  /\ to_parse_args' =
                                      [to_parse_args EXCEPT ![name] = Append(@, to_send)]
                               /\ i' = j
                               /\ pc' = AfterScan(j, argv)
                               /\ UNCHANGED error
    /\ UNCHANGED <<schema_vars, argv, results, earlier, menu_vars>>

\* the test of line 197 without its `not`
UnknownIsErrorWhenAllowed == allow_unknown

\* line 197: elif not self._config.allow_unknown
UnknownIsError == ~allow_unknown

\* the skip running on to the end of argv
SkipToEnd == Len(argv)

\* lines 200-203: j = i+1, then past every token that does not start with `-`
SkipTo == RunEnd(argv, i + 1)

\* one iteration of the while loop at a token that resolves to no option
ScanUnknown ==
    /\ pc = "scan"
    /\ _check_acceptable(argv[i + 1]) = NoName
    /\ IF UnknownIsError
       THEN /\ error' = ValidationError("Unknown argument found", NoName, PyStr(argv[i + 1]))
            /\ pc' = "done"
            /\ UNCHANGED i
       ELSE /\ i' = SkipTo
            /\ pc' = AfterScan(SkipTo, argv)
            /\ UNCHANGED error
    /\ UNCHANGED <<schema_vars, argv, arg_counter, to_parse_args, results, earlier, menu_vars>>

\* the for loop taken from the last key to the first
NextToCoerceBackwards == order[Len(order) - Cardinality(DOMAIN results)]

\* the option the for loop of lines 205-212 handles next: dict order, after
\* those already in results
NextToCoerce == order[Cardinality(DOMAIN results) + 1]

\* the for loop with the required check of every option without a group made
\* ahead of the first coercion
CoerceRequiredFirst ==
    /\ pc = "coerce"
    /\ Cardinality(DOMAIN results) < Len(order)
    /\ LET arg_name == NextToCoerce
           values == to_parse_args[arg_name]
           parsed == OptionParse(args[arg_name], values)
           put(v) == [x \in DOMAIN results \cup {arg_name} |->
                        IF x = arg_name THEN v ELSE results[x]]
           missing == { n \in 1..Len(order) :
                          to_parse_args[order[n]] = <<>> /\ args[order[n]].required }
       IN  IF missing # {}
           THEN /\ error' = ValidationError("Argument is required",
                                  order[CHOOSE n \in missing : \A m \in missing : n <= m], PyNone)
                /\ pc' = "done"
                /\ UNCHANGED results
           ELSE IF values = <<>>
           THEN /\ results' = put(args[arg_name].default)
                /\ UNCHANGED <<error, pc>>
           ELSE IF parsed.ok
                THEN /\ results' = put(parsed.value)
                     /\ UNCHANGED <<error, pc>>
                ELSE /\ error' = parsed.error
                     /\ pc' = "done"
                     /\ UNCHANGED results
    /\ UNCHANGED <<schema_vars, argv, i, arg_counter, to_parse_args, earlier, menu_vars>>

\* one iteration of the for loop over to_parse_args.items()
Coerce ==
    /\ pc = "coerce"
    /\ Cardinality(DOMAIN results) < Len(order)
    /\ LET arg_name == NextToCoerce
           values == to_parse_args[arg_name]
           parsed == OptionParse(args[arg_name], values)
           put(v) == [x \in DOMAIN results \cup {arg_name} |->
                        IF x = arg_name THEN v ELSE results[x]]
       IN  IF values = <<>>
           THEN IF ~args[arg_name].required
                THEN /\ results' = put(args[arg_name].default)
                     /\ UNCHANGED <<error, pc>>
                ELSE /\ error' = ValidationError("Argument is required", arg_name, PyNone)
                     /\ pc' = "done"
                     /\ UNCHANGED results
           ELSE IF parsed.ok
                THEN /\ results' = put(parsed.value)
                     /\ UNCHANGED <<error, pc>>
                ELSE /\ error' = parsed.error
                     /\ pc' = "done"
                     /\ UNCHANGED results
    /\ UNCHANGED <<schema_vars, argv, i, arg_counter, to_parse_args, earlier, menu_vars>>

\* what a validate_args does with the results: the method of the class returns
\* them; an override may reject them with a ValidationError or a failed assert
HookOutcomes == {"return", "ValidationError", "AssertionError"}

\* line 215: return self.validate_args(results), with nothing around the call
Validate ==
    /\ pc = "coerce"
    /\ Cardinality(DOMAIN results) = Len(order)
    /\ \E outcome \in HookOutcomes :
          error' = IF outcome = "return" THEN NoError
                   ELSE [exc |-> outcome, text |-> "validate_args", name |-> NoName,
                         detail |-> PyNone]
    /\ pc' = "done"
    /\ UNCHANGED <<schema_vars, argv, i, arg_counter, to_parse_args, results, earlier,
                   menu_vars>>

\* parse_arguments has returned or raised: its locals are gone, the parser
\* is ready for the next call
Return ==
    /\ pc = "done"
    /\ argv' = <<>>
    /\ i' = 0
    /\ arg_counter' = EmptyDict
    /\ to_parse_args' = EmptyDict
    /\ results' = EmptyDict
    /\ error' = NoError
    /\ pc' = "idle"
    /\ earlier' = IF error = NoError THEN "returned" ELSE "raised"
    /\ UNCHANGED <<schema_vars, menu_vars>>

\* one call of parse_arguments on a parser just constructed
Next ==
    \/ \E a \in Argvs : Call(a)
    \/ ScanOption
    \/ ScanUnknown
    \/ Coerce
    \/ Validate

Spec == Init /\ [][Next]_vars

\* any number of calls, one after the other, on one parser
NextCalls ==
    \/ \E a \in ShortArgvs : Call(a)
    \/ ScanOption
    \/ ScanUnknown
    \/ Coerce
    \/ Validate
    \/ Return

SpecCalls == Init /\ [][NextCalls]_vars

\* the same with a running while loop taking its next iteration
SpecCallsFair == SpecCalls /\ WF_vars(ScanOption) /\ WF_vars(ScanUnknown)

\* =========================================================== pymenus.menu
\* most options in the options list of a Menu
MaxOptions == 2
\* most execute() calls running at a time (each selection nests one more)
MaxDepth == 4
\* most sections in the structure of a StructuralMenu
MaxSections == 3
\* line 8
BACK_BUTTON == 0

\* a Menu instance, by its id in `menus`
MenuObj(id) == [kind |-> "Menu", id |-> id]

\* a plain callable
FunctionObj(f) == [kind |-> "function", name |-> f]

\* Option(title=..., function=..., kwargs=...)
OptionObj(title, function, kwargs) ==
    [kind |-> "Option", title |-> title, function |-> FunctionObj(function), kwargs |-> kwargs]

\* keyword arguments: sequences of (name, value) pairs; {} is the default
NoKwargs == <<>>
SomeKwargs == << <<"n", PyInt(1)>> >>
OtherKwargs == << <<"n", PyInt(2)>> >>

\* the options of the menus of the model
MenuOptions == { OptionObj("one", "f", NoKwargs), OptionObj("two", "g", SomeKwargs) }

OptionLists(longest) == UNION { [1..n -> MenuOptions] : n \in 0..longest }

\* Menu(sub_menus=..., options=...)
MenuOf(sub_menus, options) == [class |-> "Menu", sub_menus |-> sub_menus, options |-> options]

\* StructuralMenu(structure=...)
StructuralMenuOf(structure) == [class |-> "StructuralMenu", structure |-> structure]

\* what a structure of the model is made of: the sub-menu, an option, a
\* separator line, the back button and an int that is not the back button
Sections == { MenuObj("sub"), OptionObj("two", "g", SomeKwargs), PyStr(<<"-">>),
              PyInt(BACK_BUTTON), PyInt(BACK_BUTTON + 1) }

Structures == UNION { [1..n -> Sections] : n \in 0..MaxSections }

\* the menus of the model: "main" is a Menu, with or without the sub-menu
\* "sub", or a StructuralMenu; "sub" is a Menu with at most one option
MenuShapes ==
    { [id \in {"main", "sub"} |-> IF id = "main" THEN main ELSE MenuOf(<<>>, so)] :
      main \in { MenuOf(s, o) : s \in {<<>>, <<"sub">>}, o \in OptionLists(MaxOptions) }
               \cup { StructuralMenuOf(st) : st \in Structures },
      so \in OptionLists(1) }

\* an exception leaving a method
RaiseExc(exc) == [kind |-> "raise", exc |-> exc]

\* what the user does at the prompt: a listed number, or EOF / Ctrl-C
Interrupt == [kind |-> "interrupt"]
\* no prompt was shown
NoInput == [kind |-> "no input"]

\* one running execute(**kwargs) of the menu `menu`; `at` is where it stands:
\* "input" (at its start), "dispatched" (in the call of the selected sub-menu
\* or option), "again" (in its closing self.execute(**kwargs))
Frame(menu, kwargs, at) == [menu |-> menu, kwargs |-> kwargs, at |-> at]

Top == stack[Len(stack)]

\* Menu._display_prompt: False for a menu with nothing in it, else True
_display_prompt(menu) ==
    IF menus[menu].sub_menus = <<>> /\ menus[menu].options = <<>>
    THEN PyBool(FALSE) ELSE PyBool(TRUE)

\* Menu._prompt: the choices selective_input accepts, as ints, or None at
\* EOFError / KeyboardInterrupt
Choices(menu) == 0..(Len(menus[menu].sub_menus) + Len(menus[menu].options))

_prompt(menu, input) == IF input = Interrupt THEN PyNone ELSE input

\* a returned (to_call, defined_kwargs)
Tuple(to_call, defined_kwargs) ==
    [kind |-> "tuple", to_call |-> to_call, defined_kwargs |-> defined_kwargs]

\* Menu._handle_input(_display_prompt_return, number); a list index past the
\* end raises IndexError
_handle_input(menu, number) ==
    IF number = 0 THEN PyBool(FALSE)
    ELSE IF number <= Len(menus[menu].sub_menus)
    THEN Tuple(MenuObj(menus[menu].sub_menus[number]), NoKwargs)
    ELSE IF number - Len(menus[menu].sub_menus) > Len(menus[menu].options)
    THEN RaiseExc("IndexError")
    ELSE LET option == menus[menu].options[number - Len(menus[menu].sub_menus)]
         IN  Tuple(option.function, option.kwargs)

\* ---- StructuralMenu
\* isinstance(section, (_BaseMenu, Option))
IsEntry(section) == section.kind \in {"Menu", "Option"}

\* a dict as a Python value; d is a function from its keys
PyDict(d) == [kind |-> "dict", val |-> d]

\* user_input_structure[k] = v
PutItem(d, k, v) == [x \in DOMAIN d \cup {k} |-> IF x = k THEN v ELSE d[x]]

\* the for loop of lines 337-342 from section n on, the counter at i
RECURSIVE GenerateFrom(_, _, _, _)
GenerateFrom(structure, n, i_, d) ==
    IF n > Len(structure) THEN d
    ELSE IF IsEntry(structure[n])
    THEN GenerateFrom(structure, n + 1, i_ + 1, PutItem(d, i_, structure[n]))
    ELSE IF structure[n].kind = "int"
    THEN GenerateFrom(structure, n + 1, i_, PutItem(d, 0, PyInt(BACK_BUTTON)))
    ELSE GenerateFrom(structure, n + 1, i_, d)

\* the numbering of the dict started at 0, the display's at 1
_generate_user_input_structure_from_zero(menu) ==
    PyDict(GenerateFrom(menus[menu].structure, 1, 0, <<>>))

\* StructuralMenu._generate_user_input_structure
_generate_user_input_structure(menu) ==
    PyDict(GenerateFrom(menus[menu].structure, 1, 1, <<>>))

\* StructuralMenu._display_prompt: False for an empty structure, ValueError
\* at an int that is not BACK_BUTTON, else the dict of the numbers shown
StructuralMenu_display_prompt(menu) ==
    LET structure == menus[menu].structure
    IN  IF structure = <<>> THEN PyBool(FALSE)
        ELSE IF \E n \in 1..Len(structure) :
                   structure[n].kind = "int" /\ structure[n].val # BACK_BUTTON
        THEN RaiseExc("ValueError")
        ELSE _generate_user_input_structure(menu)

\* StructuralMenu._prompt: choices are the keys of input_structure
StructuralMenu_prompt(input_structure, input) == IF input = Interrupt THEN PyNone ELSE input

\* StructuralMenu._handle_input(input_structure, number)
StructuralMenu_handle_input(input_structure, number) ==
    IF number = PyNone THEN PyNone
    ELSE IF number.val \notin DOMAIN input_structure.val THEN RaiseExc("AssertionError")
    ELSE IF number.val = 0 THEN PyBool(FALSE)
    ELSE LET selected_option == input_structure.val[number.val]
         IN  IF selected_option.kind = "Menu" THEN Tuple(selected_option, NoKwargs)
             ELSE IF selected_option.kind = "Option"
             THEN Tuple(selected_option, selected_option.kwargs)
             ELSE PyNone

\* ---- _BaseMenu
IsStructural(menu) == menus[menu].class = "StructuralMenu"

\* self._display_prompt()
DisplayPrompt(menu) ==
    IF IsStructural(menu) THEN StructuralMenu_display_prompt(menu) ELSE _display_prompt(menu)

\* x in (False, None): == comparison, so 0 is in it
InFalseNone(x) == x = PyBool(FALSE) \/ x = PyInt(0) \/ x = PyNone

\* _BaseMenu.get_user_input; an exception of a method leaves it too
get_user_input(menu, input) ==
    LET shown == DisplayPrompt(menu)
        entered == IF IsStructural(menu) THEN StructuralMenu_prompt(shown, input)
                   ELSE _prompt(menu, input)
    IN  IF InFalseNone(shown) \/ shown.kind = "raise" THEN shown
        ELSE IF InFalseNone(entered) THEN entered
        ELSE IF IsStructural(menu) THEN StructuralMenu_handle_input(shown, entered)
        ELSE _handle_input(menu, entered.val)

\* what the user can do when get_user_input runs in `menu`: nothing when no
\* prompt is reached, else one of the choices of selective_input, or EOF
Inputs(menu) ==
    LET shown == DisplayPrompt(menu)
    IN  IF InFalseNone(shown) \/ shown.kind = "raise" THEN {NoInput}
        ELSE IF IsStructural(menu) THEN { PyInt(n) : n \in DOMAIN shown.val } \cup {Interrupt}
        ELSE { PyInt(n) : n \in Choices(menu) } \cup {Interrupt}

\* kwargs if kwargs else defined_kwargs
PassedKwargs(kwargs, defined_kwargs) == IF kwargs # NoKwargs THEN kwargs ELSE defined_kwargs

\* the innermost execute returns to its caller
Popped == SubSeq(stack, 1, Len(stack) - 1)

\* the innermost execute moves to `at` and calls execute of `menu`
Pushed(at, menu, kwargs) ==
    Append([stack EXCEPT ![Len(stack)].at = at], Frame(menu, kwargs, "input"))

\* no parser is involved
NoParser ==
    /\ annotations = <<>>
    /\ order = <<>>
    /\ args = EmptyDict
    /\ _acceptables = EmptyDict
    /\ allow_unknown = TRUE
    /\ argv = <<>>
    /\ i = 0
    /\ arg_counter = EmptyDict
    /\ to_parse_args = EmptyDict
    /\ results = EmptyDict
    /\ error = NoError
    /\ pc = "idle"
    /\ earlier = "none"

parser_vars == <<schema_vars, argv, i, arg_counter, to_parse_args, results, error, pc, earlier>>

\* main.execute(**kwargs) has just been called
InitMenu ==
    /\ NoParser
    /\ menus \in MenuShapes
    /\ \E kwargs \in {NoKwargs, OtherKwargs} : stack = <<Frame("main", kwargs, "input")>>
    /\ status = "running"
    /\ called = <<>>
    /\ last = [menu |-> "", kwargs |-> NoKwargs, input |-> NoInput, selected |-> PyNone]

\* execute from its start to its first call, return or raise: lines 117-130
Execute(input) ==
    /\ status = "running" /\ Top.at = "input"
    /\ input \in Inputs(Top.menu)
    /\ last' = [menu |-> Top.menu, kwargs |-> Top.kwargs, input |-> input,
                 selected |-> get_user_input(Top.menu, input)]
    /\ LET selected_option == get_user_input(Top.menu, input)
       IN  IF selected_option.kind = "raise"
           THEN /\ status' = selected_option.exc
                /\ UNCHANGED <<stack, called>>
           ELSE IF selected_option = PyBool(FALSE) \/ selected_option = PyInt(0)
           THEN /\ stack' = Popped
                /\ status' = IF Popped = <<>> THEN "returned" ELSE "running"
                /\ UNCHANGED called
           ELSE IF selected_option = PyNone
           THEN /\ status' = "exited"
                /\ UNCHANGED <<stack, called>>
           ELSE LET to_call == selected_option.to_call
                    passed == PassedKwargs(Top.kwargs, selected_option.defined_kwargs)
                IN  IF to_call.kind = "Menu"
                    THEN /\ Len(stack) < MaxDepth
                         /\ stack' = Pushed("dispatched", to_call.id, passed)
                         /\ UNCHANGED <<status, called>>
                    ELSE IF to_call.kind = "Option"
                    THEN /\ Len(stack) < MaxDepth
                         /\ called' = Append(called, [function |-> to_call.function,
                                                      kwargs |-> passed])
                         /\ stack' = Pushed("again", Top.menu, Top.kwargs)
                         /\ UNCHANGED status
                    ELSE /\ status' = "TypeError"
                         /\ UNCHANGED <<stack, called>>
    /\ UNCHANGED <<menus, parser_vars>>

\* the execute of the selected sub-menu has returned: line 132,
\* self.execute(**kwargs)
Resume ==
    /\ status = "running" /\ Top.at = "dispatched"
    /\ stack' = Pushed("again", Top.menu, Top.kwargs)
    /\ UNCHANGED <<menus, status, called, last, parser_vars>>

\* the closing self.execute(**kwargs) has returned: execute returns
Unwind ==
    /\ status = "running" /\ Top.at = "again"
    /\ stack' = Popped
    /\ status' = IF Popped = <<>> THEN "returned" ELSE "running"
    /\ UNCHANGED <<menus, called, last, parser_vars>>

NextMenu ==
    \/ \E n \in 0..(MaxOptions + MaxSections) : Execute(PyInt(n))
    \/ Execute(Interrupt)
    \/ Execute(NoInput)
    \/ Resume
    \/ Unwind

SpecMenu == InitMenu /\ [][NextMenu]_vars

\* ================================================================== claims
Range(s) == { s[n] : n \in 1..Len(s) }

\* validate_args raised (an overriding hook rejected the results)
HookRaised == error.text = "validate_args"

\* parse_arguments returned its result mapping
Returned == pc = "done" /\ error = NoError

DeclOf(x) == CHOOSE d \in Range(annotations) : d.name = x

\* declared without a default and not Optional
DeclaredRequired(x) == ~DeclOf(x).hasattr /\ DeclOf(x).type # "int|None"

RequiredPositions == { n \in 1..Len(annotations) : DeclaredRequired(annotations[n].name) }

\* C1: parse_arguments([]) succeeds iff no declared option is required (each
\* has a default or is Optional); otherwise it fails with the missing-option
\* ValidationError naming the first required option in declaration order.
\* (A rejection by an overriding validate_args is the subject of C9.)
C1_EmptyArgv ==
    (pc = "done" /\ argv = <<>>) =>
        IF RequiredPositions = {}
        THEN error = NoError \/ HookRaised
        ELSE LET first == CHOOSE n \in RequiredPositions : \A m \in RequiredPositions : n <= m
             IN  error = ValidationError("Argument is required", annotations[first].name, PyNone)

\* C1 witness: [] fails naming the second option, the first having a default
C1_Witness ==
    /\ pc = "done" /\ argv = <<>> /\ Len(annotations) = 2
    /\ RequiredPositions = {2}
    /\ error = ValidationError("Argument is required", annotations[2].name, PyNone)

\* C2: all spellings of the acceptable-name table are pairwise distinct across
\* options, and resolving any spelling returns the option that owns it.
C2_SpellingsDistinct ==
    /\ \A x \in Names, y \in Names :
          x # y => Range(_acceptables[x]) \cap Range(_acceptables[y]) = {}
    /\ \A x \in Names : \A s \in Range(_acceptables[x]) : _check_acceptable(s) = x

\* ---- argv as the claims describe it: flags, and the value run after each
DashPositions(a) == { n \in 1..Len(a) : StartsWithDash(a[n]) }

\* the tokens after position n up to the next token that starts with `-`
RunAfter(a, n) ==
    LET later == { q \in DashPositions(a) : q > n }
        stop == IF later = {} THEN Len(a) + 1
                ELSE CHOOSE q \in later : \A r \in later : q <= r
    IN  SubSeq(a, n + 1, stop - 1)

IsIntLiteral(t) == t # <<>> /\ \A n \in 1..Len(t) : t[n] \in Digits

\* a value run that is valid for option x
ValidRun(x, run) ==
    CASE args[x].validator = "bool" -> run = <<>>
      [] args[x].validator = "list" -> Len(run) >= 1
      [] args[x].validator = "str" -> Len(run) = 1
      [] OTHER -> Len(run) = 1 /\ IsIntLiteral(run[1])

\* argv is nothing but occurrences of x's flag, in any of the spellings the
\* table lists for x, each with a valid value
OnlyOccurrencesOf(x) ==
    /\ argv # <<>> /\ StartsWithDash(argv[1])
    /\ \A n \in DashPositions(argv) :
          argv[n] \in Range(_acceptables[x]) /\ ValidRun(x, RunAfter(argv, n))

LimitError(x) == ValidationError("You can use option only times", x, PyInt(args[x].maximum))

\* C3: an argv in which an option's flag, by any of its spellings, appears
\* maximum+1 times, each time with a valid value, fails with the
\* occurrence-limit ValidationError; with exactly maximum occurrences it
\* succeeds (no other option being required).
C3_OccurrenceLimit ==
    \A x \in Names :
        (pc = "done" /\ ~args[x].positional /\ OnlyOccurrencesOf(x)) =>
            LET m == Cardinality(DashPositions(argv))
            IN  /\ m = args[x].maximum + 1 => error = LimitError(x)
                /\ (m = args[x].maximum /\ \A y \in Names \ {x} : ~args[y].required)
                      => (error = NoError \/ HookRaised)

\* ---- C4
IsScalar(x) == args[x].validator \notin {"bool", "list"}

\* `--x` occurs in argv followed by two or more value tokens
LongFlagWithValues(x) ==
    \E n \in 1..Len(argv) :
        argv[n] = <<"-", "-">> \o x /\ Len(RunAfter(argv, n)) >= 2

ArityError(x) == ValidationError("must have single argument", x, PyNone)

PositionOf(x) == CHOOSE n \in 1..Len(order) : order[n] = x

\* the scan of argv raised nothing, and every option declared before x got its
\* default or its coerced value: x is the option Option.parse is applied to
\* next, or has been
CoercionReached(x) ==
    /\ pc \in {"coerce", "done"} /\ i >= Len(argv)
    /\ { order[n] : n \in 1..(PositionOf(x) - 1) } \subseteq DOMAIN results

\* C4 as stated: for a scalar option x, an argv in which `--x` is followed by
\* two or more value tokens fails with the arity error naming x.
C4_AlwaysArityError ==
    \A x \in Names :
        (pc = "done" /\ IsScalar(x) /\ LongFlagWithValues(x)) => error = ArityError(x)

\* C4 amended: such an argv always fails and x never gets a value (no converter
\* is applied to the group); the failure is the arity error naming x whenever
\* the scan raised nothing and no option declared before x failed first.
C4_ArityError ==
    \A x \in Names :
        (pc = "done" /\ IsScalar(x) /\ LongFlagWithValues(x)) =>
            /\ error # NoError /\ ~HookRaised
            /\ x \notin DOMAIN results
            /\ error.text # "str(e)" /\ error.text # "conversion failed"
            /\ CoercionReached(x) => error = ArityError(x)

\* C4 witness: `--x 7 ab` for an int option x fails with the arity error
C4_Witness ==
    \E x \in Names :
        /\ pc = "done" /\ args[x].validator = "int" /\ LongFlagWithValues(x)
        /\ error = ArityError(x)

\* ---- C5
\* the value tokens that follow the occurrences of x's flag from position n on
RECURSIVE ValueTokensOf(_, _)
ValueTokensOf(x, n) ==
    IF n > Len(argv) THEN <<>>
    ELSE IF StartsWithDash(argv[n]) /\ _check_acceptable(argv[n]) = x
    THEN RunAfter(argv, n) \o ValueTokensOf(x, n + 1)
    ELSE ValueTokensOf(x, n + 1)

\* C5: the value of a list option is exactly the value tokens that follow its
\* flag occurrences, in input order: no flag token, nothing split or dropped.
C5_ListTokens ==
    \A x \in Names :
        (pc = "done" /\ args[x].validator = "list" /\ x \in DOMAIN results
            /\ to_parse_args[x] # <<>>) =>
            LET tokens == ValueTokensOf(x, 1)
            IN  results[x] = PyList([n \in 1..Len(tokens) |-> PyStr(tokens[n])])

\* ---- C6
\* the positions of argv whose token resolves to option x
FlagPositions(x) == { n \in DashPositions(argv) : _check_acceptable(argv[n]) = x }

\* x's flag occurs, and no value token follows any of its occurrences
BareFlag(x) ==
    FlagPositions(x) # {} /\ \A n \in FlagPositions(x) : RunAfter(argv, n) = <<>>

BoolDefaultFalse(x) == args[x].validator = "bool" /\ args[x].default = PyBool(FALSE)

\* C6: for a Bool option with default false, a call with the bare flag yields
\* true for the option and parse_arguments([]) yields false; neither call
\* fails on account of the option.
C6_BoolFlag ==
    \A x \in Names :
        (pc = "done" /\ BoolDefaultFalse(x)) =>
            /\ (Returned /\ BareFlag(x)) => results[x] = PyBool(TRUE)
            /\ (Returned /\ FlagPositions(x) = {}) => results[x] = PyBool(FALSE)
            /\ (argv = <<>> \/ (Len(argv) = 1 /\ BareFlag(x))) => error.name # x

\* C6 witness: the bare flag of a Bool option with default false gave true
C6_Witness ==
    \E x \in Names :
        Returned /\ BoolDefaultFalse(x) /\ BareFlag(x) /\ results[x] = PyBool(TRUE)

\* ---- C7
\* C7: a scalar option whose flag is followed by exactly one value token gets
\* the converter's value of that token; if the converter fails, the call fails
\* with a ValidationError that carries the option name and the converter's
\* message.
C7_ScalarConversion ==
    \A x \in Names :
        (pc = "done" /\ IsScalar(x) /\ CoercionReached(x) /\ Len(to_parse_args[x]) = 1
            /\ to_parse_args[x][1].kind = "str") =>
            LET token == to_parse_args[x][1]
                converted == IF args[x].validator = "str" THEN StrOf(token) ELSE IntOf(token)
            IN  IF converted.ok
                THEN x \in DOMAIN results /\ results[x] = converted.value
                ELSE /\ error.exc = "ValidationError"
                     /\ error.name = x
                     /\ error.detail = converted.error.detail

\* ---- C8
\* the scan index is at a flag of option x with an empty value run
AtEmptyRun(x) ==
    /\ pc = "scan" /\ _check_acceptable(argv[i + 1]) = x
    /\ RunAfter(argv, i + 1) = <<>>

\* what C8 says of that step: a marker and no error for Bool, else the
\* missing-value error naming the option
MarkerOrMissingValue(x) ==
    IF args[x].validator = "bool"
    THEN /\ error' = NoError /\ pc' # "done"
         /\ to_parse_args' = [to_parse_args EXCEPT ![x] = Append(@, PyBool(TRUE))]
    ELSE /\ pc' = "done"
         /\ error' = ValidationError("option needs an argument", x, PyNone)

\* C8 as stated: at a recognized flag followed by an empty value run, a Bool
\* option gets a presence marker and no error is raised; any other option
\* fails with the missing-value ValidationError naming it.
C8_EmptyRunAlways ==
    [][\A x \in Names : AtEmptyRun(x) => MarkerOrMissingValue(x)]_vars

\* C8 amended: that holds while the option has occurrences left; once its
\* maximum is used up the step fails with the occurrence-limit error instead,
\* for a Bool option too.
C8_EmptyRun ==
    [][\A x \in Names :
          AtEmptyRun(x) =>
              IF arg_counter[x] > 0 THEN MarkerOrMissingValue(x)
              ELSE pc' = "done" /\ error' = LimitError(x) /\ UNCHANGED to_parse_args]_vars

\* C8 witness: a non-Bool option's flag with nothing after it failed with the
\* missing-value error, after the scan had already taken an earlier token
C8_Witness ==
    \E x \in Names :
        /\ pc = "done" /\ i > 0 /\ args[x].validator # "bool"
        /\ error = ValidationError("option needs an argument", x, PyNone)

\* ---- C9
\* C9: whatever validate_args raises (a ValidationError or an AssertionError)
\* leaves parse_arguments as a ValidationError.
C9_HookErrors == (pc = "done" /\ HookRaised) => error.exc = "ValidationError"

\* ---- C10
UnknownError(token) == ValidationError("Unknown argument found", NoName, PyStr(token))

\* the positions the scan index has been at and left: the first token and
\* every later token that starts with `-`, before the index
PassedPositions == { n \in 1..i : n = 1 \/ StartsWithDash(argv[n]) }

\* C10: with allow_unknown false the scan passes no token that resolves to no
\* option, it fails at such a token with the unknown-argument ValidationError
\* naming it; with allow_unknown true no call fails with that error.
C10_UnknownArgument ==
    /\ allow_unknown => error.text # "Unknown argument found"
    /\ ~allow_unknown =>
          /\ \A n \in PassedPositions : _check_acceptable(argv[n]) # NoName
          /\ (pc = "done" /\ i < Len(argv)) =>
                (_check_acceptable(argv[i + 1]) = NoName <=> error = UnknownError(argv[i + 1]))

\* C10 witness: an unknown token after a parsed option failed the call
C10_Witness ==
    /\ pc = "done" /\ ~allow_unknown /\ i > 0
    /\ error = UnknownError(argv[i + 1])

\* ---- C11
\* the positional option declared first
FirstPositional(x) ==
    args[x].positional /\ \A y \in Names : args[y].positional => PositionOf(x) <= PositionOf(y)

\* C11: no `--name` or `-abbrev` spelling resolves to a positional option; it
\* is bound to the leftover value tokens, in declaration order: on an argv of
\* value tokens only, the first positional option gets the first token.
C11_Positional ==
    \A x \in Names :
        args[x].positional =>
            /\ \A t \in Tokens : _check_acceptable(t) # x
            /\ (pc = "done" /\ FirstPositional(x) /\ argv # <<>> /\ DashPositions(argv) = {}
                  /\ IsIntLiteral(argv[1]) /\ ~HookRaised) =>
                  (x \in DOMAIN results /\ results[x] = PyInt(DecimalVal(argv[1])))

\* ---- C12
\* declared as int | None with no class attribute
OptionalNoDefault(x) == DeclOf(x).type = "int|None" /\ ~DeclOf(x).hasattr

\* C12: an Optional option declared without a default is not required; when
\* its flag does not occur in argv the call does not fail for it and the
\* result maps its name to None.
C12_OptionalAbsent ==
    \A x \in Names :
        OptionalNoDefault(x) =>
            /\ ~args[x].required
            /\ (pc = "done" /\ FlagPositions(x) = {}) =>
                  /\ error.name # x
                  /\ CoercionReached(x) => (x \in DOMAIN results /\ results[x] = PyNone)
                  /\ Returned => results[x] = PyNone

\* C12 witness: a call whose argv has tokens but not the flag of the Optional
\* option returned None for it
C12_Witness ==
    \E x \in Names :
        /\ OptionalNoDefault(x) /\ Returned /\ argv # <<>> /\ FlagPositions(x) = {}
        /\ results[x] = PyNone

\* ---- C13
IsBool(x) == args[x].validator = "bool"

\* C13 as stated: for a Bool option, whatever its default and whatever tokens
\* follow its flag, the result is true whenever the flag occurs (the tokens
\* are ignored and cause no error) and the default when it does not occur.
C13_BoolAlwaysTrue ==
    \A x \in Names :
        (pc = "done" /\ IsBool(x) /\ CoercionReached(x)) =>
            IF FlagPositions(x) # {}
            THEN x \in DOMAIN results /\ results[x] = PyBool(TRUE)
            ELSE ~args[x].required => (x \in DOMAIN results /\ results[x] = args[x].default)

\* x's flag occurs with two or more value tokens after one of its occurrences
FlagWithSeveralValues(x) == \E n \in FlagPositions(x) : Len(RunAfter(argv, n)) >= 2

\* C13 amended: the flag inverts the default. When the flag occurs, each time
\* with at most one value token (which is ignored), the result is true if the
\* default is false or missing and false if the default is true; an occurrence
\* with two or more value tokens fails with the arity error; when the flag
\* does not occur the result is the default, and without a default the call
\* fails with the missing-option error.
C13_BoolToggle ==
    \A x \in Names :
        (pc = "done" /\ IsBool(x) /\ CoercionReached(x)) =>
            IF FlagPositions(x) = {}
            THEN IF args[x].required
                 THEN error = ValidationError("Argument is required", x, PyNone)
                 ELSE x \in DOMAIN results /\ results[x] = args[x].default
            ELSE IF FlagWithSeveralValues(x)
            THEN error = ArityError(x) /\ x \notin DOMAIN results
            ELSE x \in DOMAIN results
                 /\ results[x] = PyBool(args[x].default # PyBool(TRUE))

\* C13 witness: the flag of a Bool option with default true gave false
C13_Witness ==
    \E x \in Names :
        /\ Returned /\ IsBool(x) /\ args[x].default = PyBool(TRUE) /\ FlagPositions(x) # {}
        /\ results[x] = PyBool(FALSE)

\* ---- C15
\* the locals of lines 169-172 as a call that starts leaves them
FreshLocals ==
    /\ i' = 0
    /\ results' = EmptyDict
    /\ arg_counter' = [x \in Names |-> args[x].maximum]
    /\ to_parse_args' = [x \in Names |-> <<>>]
    /\ error' = NoError

\* C15: every call starts from fresh counters and groups, and no step of a
\* call changes the descriptors or the acceptable-name table; between calls
\* the parser is as __init__ built it from the declarations, so a call after
\* any sequence of calls runs as on a fresh parser.
C15_CallsIndependent ==
    /\ [](pc = "idle" => Construct)
    /\ [][/\ UNCHANGED schema_vars
          /\ (pc = "idle" /\ pc' # "idle") => FreshLocals]_vars

\* C15 witness: a call on some tokens returned after an earlier call on the
\* same parser had failed
C15_Witness == earlier = "raised" /\ Returned /\ argv # <<>>

\* ---- C16
\* x is required and the scan collected no group for it
MissingRequired(x) == to_parse_args[x] = <<>> /\ args[x].required

\* the scan collected for the int option y one token that is no int literal
Unconvertible(y) ==
    /\ args[y].validator = "int"
    /\ Len(to_parse_args[y]) = 1 /\ to_parse_args[y][1].kind = "str"
    /\ ~IsIntLiteral(to_parse_args[y][1].val)

\* the call is over, its scan raised nothing, x lacks its required value and y
\* has an unconvertible one, and every option declared before both is fine
OmittedAndUnconvertible(x, y) ==
    /\ pc = "done" /\ i >= Len(argv)
    /\ MissingRequired(x) /\ Unconvertible(y)
    /\ \A z \in Names :
          (PositionOf(z) < PositionOf(x) /\ PositionOf(z) < PositionOf(y)) => z \in DOMAIN results

RequiredError(x) == ValidationError("Argument is required", x, PyNone)

\* C16 as stated: an argv that omits a required option and gives another
\* option an unconvertible value fails with the missing-required-option
\* error, whichever of the two is declared first.
C16_RequiredBeforeCoercion ==
    \A x \in Names, y \in Names :
        OmittedAndUnconvertible(x, y) => error = RequiredError(x)

\* C16 amended: the options are handled one by one in declaration order, each
\* either defaulted, found missing, or coerced, so such an argv fails with the
\* error of whichever of the two options is declared first: the
\* missing-required-option error if that is the omitted one, the conversion
\* error if that is the one with the unconvertible value.
C16_DeclarationOrder ==
    \A x \in Names, y \in Names :
        OmittedAndUnconvertible(x, y) =>
            IF PositionOf(x) < PositionOf(y)
            THEN error = RequiredError(x)
            ELSE error = ValidationError("str(e)", NoName, IntOf(to_parse_args[y][1]).error.detail)

\* C16 witness: the option with the unconvertible value is declared first and
\* the call failed with the conversion error
C16_Witness ==
    \E x \in Names, y \in Names :
        /\ OmittedAndUnconvertible(x, y) /\ PositionOf(y) < PositionOf(x)
        /\ error.text = "str(e)"

\* ---- C17
\* the positions of argv that hold a token resolving to an option, or a token
\* of the value run after such a token
KeptPositions ==
    { n \in 1..Len(argv) :
        \E m \in 1..n : /\ StartsWithDash(argv[m]) /\ _check_acceptable(argv[m]) # NoName
                        /\ n <= m + Len(RunAfter(argv, m)) }

\* argv from position n on with every unknown token and its run removed
RECURSIVE WithoutUnknownFrom(_)
WithoutUnknownFrom(n) ==
    IF n > Len(argv) THEN <<>>
    ELSE (IF n \in KeptPositions THEN <<argv[n]>> ELSE <<>>) \o WithoutUnknownFrom(n + 1)

\* the value runs after the occurrences of x's flag in a, from position n on
RECURSIVE RunsFrom(_, _, _)
RunsFrom(x, a, n) ==
    IF n > Len(a) THEN <<>>
    ELSE IF StartsWithDash(a[n]) /\ _check_acceptable(a[n]) = x
    THEN <<RunAfter(a, n)>> \o RunsFrom(x, a, n + 1)
    ELSE RunsFrom(x, a, n + 1)

\* the value tokens in a collected group
RECURSIVE ValuesIn(_, _)
ValuesIn(items, n) ==
    IF n > Len(items) THEN <<>>
    ELSE (IF StartsWithDash(items[n].val) THEN <<>> ELSE <<items[n].val>>)
         \o ValuesIn(items, n + 1)

GroupValues(group) ==
    CASE group.kind = "bool" -> <<>>
      [] group.kind = "str" -> <<group.val>>
      [] OTHER -> ValuesIn(group.val, 1)

\* the value tokens of the groups the scan collected for x, group by group
CollectedRuns(x) == [k \in 1..Len(to_parse_args[x]) |-> GroupValues(to_parse_args[x][k])]

\* C17: with allow_unknown true, a scan that raises nothing collects for every
\* option exactly the groups of argv with the unknown tokens and their runs
\* removed (what the results are computed from): each unknown token and its
\* run is skipped, and a recognized flag after the run is still taken.
C17_UnknownSkipped ==
    (allow_unknown /\ pc \in {"coerce", "done"} /\ i >= Len(argv)) =>
        \A x \in Names : CollectedRuns(x) = RunsFrom(x, WithoutUnknownFrom(1), 1)

\* C17 witness: an unknown token with a value token after it was skipped, and
\* the flag that follows the run gave its option a group; the call returned
C17_Witness ==
    \E x \in Names, n \in 1..Len(argv) :
        /\ allow_unknown /\ Returned
        /\ n \notin KeptPositions /\ (n = 1 \/ StartsWithDash(argv[n]))
        /\ RunAfter(argv, n) # <<>>
        /\ \E m \in FlagPositions(x) : m > n
        /\ Len(to_parse_args[x]) = 1

\* ---- C19
\* the scan is under way, or has ended without raising
ScanNotFailed == pc = "scan" \/ (pc \in {"coerce", "done"} /\ i >= Len(argv))

\* C19: no occurrence counter is ever negative; while the scan runs and after
\* a scan that did not fail, every option's counter is its maximum minus the
\* number of groups collected for it, so no option has more than maximum
\* groups.
C19_Counters ==
    /\ \A x \in DOMAIN arg_counter : arg_counter[x] >= 0
    /\ ScanNotFailed =>
          \A x \in Names :
              /\ arg_counter[x] = args[x].maximum - Len(to_parse_args[x])
              /\ Len(to_parse_args[x]) <= args[x].maximum

\* C19 witness: the scan goes on after an option with maximum 2 has used up
\* its occurrences, two groups collected and its counter at zero
C19_Witness ==
    \E x \in Names :
        /\ pc = "scan" /\ args[x].maximum = 2
        /\ arg_counter[x] = 0 /\ Len(to_parse_args[x]) = 2

\* ---- C20
\* what a step of the scan at index i that does not fail does: it takes the
\* token at i and the maximal run of tokens not starting with `-` after it,
\* and leaves the index at the next token that starts with `-` or at the end;
\* the run goes to the option the token resolves to, as one group, or nowhere
TakesTokenAndRun ==
    /\ i < i' /\ i' <= Len(argv)
    /\ \A n \in (i + 2)..i' : ~StartsWithDash(argv[n])
    /\ i' = Len(argv) \/ StartsWithDash(argv[i' + 1])
    /\ pc' = IF i' < Len(argv) THEN "scan" ELSE "coerce"
    /\ LET name == _check_acceptable(argv[i + 1])
       IN  \A x \in Names :
               IF x = name
               THEN /\ Len(to_parse_args'[x]) = Len(to_parse_args[x]) + 1
                    /\ SubSeq(to_parse_args'[x], 1, Len(to_parse_args[x])) = to_parse_args[x]
                    /\ GroupValues(to_parse_args'[x][Len(to_parse_args'[x])])
                          = SubSeq(argv, i + 2, i')
               ELSE to_parse_args'[x] = to_parse_args[x]

\* C20: the scan loop terminates: while it runs the index is inside argv, and
\* every iteration either fails or takes the token at the index together with
\* its run and moves the index strictly forward to the next unconsumed token,
\* so every token is taken by exactly one iteration.
C20_ScanTerminates ==
    /\ [](pc = "scan" => (0 <= i /\ i < Len(argv)))
    /\ [][pc = "scan" => ((pc' = "done" /\ error' # NoError /\ i' = i) \/ TakesTokenAndRun)]_vars
    /\ (pc = "scan") ~> (pc # "scan")

\* C20 witness: the scan reached the end of argv in more than one step, one
\* that skipped an unknown token and one that collected a group
C20_Witness ==
    /\ pc = "coerce" /\ i = Len(argv) /\ Len(argv) >= 2
    /\ \E n \in 2..Len(argv) : StartsWithDash(argv[n])
    /\ \E n \in 1..Len(argv) : n \notin KeptPositions
    /\ \E x \in Names : to_parse_args[x] # <<>>

\* ---- C14
\* the last thing the user did was to select a number the menu listed for one
\* of its options
LastWasOption ==
    /\ last.menu # "" /\ ~IsStructural(last.menu)
    /\ last.input.kind = "int"
    /\ last.input.val > Len(menus[last.menu].sub_menus)

\* C14: after the user selects the number of an option of a Menu, execute has
\* called that option's function with the option's kwargs (with its own
\* kwargs when it was given some) and shows the same menu again; no TypeError
\* is raised.
C14_OptionCalled ==
    LastWasOption =>
        LET option == menus[last.menu].options[last.input.val - Len(menus[last.menu].sub_menus)]
        IN  /\ status = "running"
            /\ called # <<>>
            /\ called[Len(called)] = [function |-> option.function,
                                      kwargs |-> PassedKwargs(last.kwargs, option.kwargs)]
            /\ Top = Frame(last.menu, last.kwargs, "input")

\* ---- C18
\* the step of the execute of a Menu that stands at its start
ExecuteStarts == status = "running" /\ Top.at = "input" /\ ~IsStructural(Top.menu)

\* that execute returns to its caller
ExecuteReturns == stack' = Popped /\ status' \in {"running", "returned"}

\* that execute goes on after a dispatch: it has not returned, and the menu is
\* run again or will be once the selected sub-menu has returned
ExecuteGoesOn ==
    /\ status' = "running"
    /\ Len(stack') = Len(stack) + 1
    /\ stack'[Len(stack)].menu = Top.menu
    /\ stack'[Len(stack)].at \in {"dispatched", "again"}

\* C18: Menu.execute returns exactly when the menu is empty or the user
\* selects 0; it ends the application at EOF or a keyboard interrupt; after
\* any other selection it dispatches and then runs the same menu again, also
\* when the execute of a selected sub-menu has returned.
C18_ExecuteLoop ==
    [][/\ ExecuteStarts =>
             /\ ExecuteReturns <=> (last'.input = NoInput \/ last'.input = PyInt(0))
             /\ status' = "exited" <=> last'.input = Interrupt
             /\ (last'.input.kind = "int" /\ last'.input.val > 0) => ExecuteGoesOn
       /\ (status = "running" /\ Top.at = "dispatched" /\ ~IsStructural(Top.menu)) =>
             stack' = Pushed("again", Top.menu, Top.kwargs)]_vars

\* the same for the selections of sub-menus only
C18_SubMenusOnly ==
    [][/\ ExecuteStarts =>
             /\ ExecuteReturns <=> (last'.input = NoInput \/ last'.input = PyInt(0))
             /\ status' = "exited" <=> last'.input = Interrupt
             /\ (last'.input.kind = "int" /\ last'.input.val > 0
                   /\ last'.input.val <= Len(menus[Top.menu].sub_menus)) => ExecuteGoesOn
       /\ (status = "running" /\ Top.at = "dispatched" /\ ~IsStructural(Top.menu)) =>
             stack' = Pushed("again", Top.menu, Top.kwargs)]_vars

\* ---- C21
\* the entries of a menu that are shown with a number, in display order: the
\* sub-menus and then the options of a Menu, the Menu and Option sections of
\* the structure of a StructuralMenu
NumberedEntries(menu) ==
    IF IsStructural(menu) THEN SelectSeq(menus[menu].structure, IsEntry)
    ELSE [n \in 1..Len(menus[menu].sub_menus) |-> MenuObj(menus[menu].sub_menus[n])]
         \o menus[menu].options

\* the structure has the back button in it
HasBackButton(menu) ==
    \E n \in 1..Len(menus[menu].structure) : menus[menu].structure[n] = PyInt(BACK_BUTTON)

\* `selected` is what stands for the entry: the sub-menu with no kwargs, or
\* the option (as the Option or as its function: which of the two is C14's
\* matter) with the option's kwargs
StandsFor(selected, entry) ==
    /\ selected.kind = "tuple"
    /\ IF entry.kind = "Menu"
       THEN selected.to_call = entry /\ selected.defined_kwargs = NoKwargs
       ELSE /\ selected.to_call = entry \/ selected.to_call = entry.function
            /\ selected.defined_kwargs = entry.kwargs

\* C21: every number a menu offered and the user entered was resolved without
\* error (no list index out of range, no failed assertion) to the entry shown
\* with that number; 0 moves back, and a StructuralMenu offers it only when
\* its structure has the back button.
C21_NumbersResolve ==
    /\ status \notin {"IndexError", "AssertionError"}
    /\ (last.menu # "" /\ last.input.kind = "int") =>
          IF last.input.val = 0
          THEN /\ InFalseNone(last.selected) /\ last.selected # PyNone
               /\ IsStructural(last.menu) => HasBackButton(last.menu)
          ELSE /\ last.input.val \in 1..Len(NumberedEntries(last.menu))
               /\ StandsFor(last.selected, NumberedEntries(last.menu)[last.input.val])

\* C21 witness: in a StructuralMenu whose structure starts with a separator
\* line, the user entered 2 and the second numbered entry was dispatched
C21_Witness ==
    /\ last.menu # "" /\ IsStructural(last.menu)
    /\ last.input = PyInt(2)
    /\ menus[last.menu].structure[1].kind = "str"
    /\ last.selected.kind = "tuple"
    /\ last.selected.to_call = NumberedEntries(last.menu)[2]
    /\ status = "running"

\* ---- C22
\* the default the declaration of x gives it: its class attribute, or None for
\* an Optional annotation without one
DeclaredDefault(x) == IF DeclOf(x).hasattr THEN DeclOf(x).attr ELSE PyNone

\* the result of x is a value coerced from what follows its flag: for one
\* occurrence of an int or str option the converted token, for a bool option
\* a bool, for a list option or several occurrences a list
IsCoercedValue(x) ==
    LET n == CHOOSE m \in FlagPositions(x) : TRUE
        run == RunAfter(argv, n)
    IN  IF args[x].validator = "bool" THEN results[x].kind = "bool"
        ELSE IF Cardinality(FlagPositions(x)) > 1 \/ args[x].validator = "list"
        THEN results[x].kind = "list"
        ELSE /\ Len(run) = 1
             /\ results[x] = IF args[x].validator = "str" THEN PyStr(run[1])
                             ELSE PyInt(DecimalVal(run[1]))

\* C22: when parse_arguments returns, the result mapping has exactly the
\* declared option names as its keys; an option whose flag did not occur maps
\* to its declared default, an option whose flag occurred to its coerced value.
C22_ResultMapping ==
    Returned =>
        /\ DOMAIN results = { annotations[n].name : n \in 1..Len(annotations) }
        /\ \A x \in Names :
              IF FlagPositions(x) = {} THEN results[x] = DeclaredDefault(x)
              ELSE IsCoercedValue(x)

\* C22 witness: a call on a parser of two options returned, one option with
\* the value converted from its token, the other with its declared default
C22_Witness ==
    \E x \in Names, y \in Names :
        /\ Returned /\ x # y
        /\ args[x].validator = "int" /\ FlagPositions(x) # {}
        /\ results[x] = PyInt(7)
        /\ FlagPositions(y) = {} /\ results[y] = DeclOf(y).attr

====
